---------------------------- MODULE Spec2Model ----------------------------
(***************************************************************************)
(* A model of the scalar_types crate (src/src/lib.rs): the endianness      *)
(* tagged scalar wrapper Endian<T>, its casts, the native-endianness probe,*)
(* the byte-reversal primitive and the stream-read helper.                 *)
(*                                                                         *)
(* A scalar of type T is modelled by its in-memory byte sequence, a        *)
(* sequence of size_of(T) bytes; a wrapper is a record [tag, val].         *)
(* Option<X> is modelled as a sequence of length 0 (None) or 1 (Some(x)).  *)
(***************************************************************************)
EXTENDS Naturals, Sequences, FiniteSets

VARIABLES
    machine,    \* the architecture the process runs on
    src,        \* the wrapper the caller constructed first
    w,          \* the wrapper the casts are applied to
    via,        \* tag of the intermediate re-wrap of a round trip, or "none"
    op,         \* the last operation called on w
    arg,        \* the order passed to cast(), or "none"
    res,        \* what the last operation returned
    probed,     \* whether the last operation called get_native_endianness
    orig,       \* the value first handed to endian_swap_unsafe
    value,      \* the value after the swaps applied so far
    swaps,      \* number of times endian_swap_unsafe was applied
    data,       \* the bytes of the byte source
    pos,        \* number of bytes of the source consumed so far
    size,       \* size_of(T) of the from_stream::<T> calls
    reads,      \* payloads of the successful from_stream calls, in order
    failed,     \* whether some from_stream call returned None
    last,       \* what the last from_stream call returned
    lastPos     \* the source position before the last from_stream call

castVars   == <<src, w, via, op, arg, res, probed>>
swapVars   == <<orig, value, swaps>>
streamVars == <<data, pos, size, reads, failed, last, lastPos>>
vars       == <<machine, castVars, swapVars, streamVars>>

---------------------------------------------------------------------------
\* Bounds of the model.

\* Largest size_of(T), in bytes.
MaxSize == 8

\* Largest number of bytes a byte source holds.
MaxStream == 8

\* Largest number of successive applications of endian_swap_unsafe.
MaxSwaps == 2

\* The byte values payloads and sources are built from.
Bytes == {0, 2}

Sizes == 1..MaxSize

\* All byte sequences of length n.
BytesOfLen(n) == [1..n -> Bytes]

\* All scalars: byte sequences of 1..MaxSize bytes.
Payloads == UNION {BytesOfLen(n) : n \in Sizes}

\* All contents of a byte source.
Sources == UNION {BytesOfLen(n) : n \in 0..MaxStream}

Min(a, b) == IF a < b THEN a ELSE b

---------------------------------------------------------------------------
\* Option<T>

None == <<>>

Some(x) == <<x>>

---------------------------------------------------------------------------
\* The machine and the probe.

Machines == {"Little", "Big", "Unknown"}

Tags == {"Little", "Big", "Native"}

RECURSIVE Pow256(_)
Pow256(k) == IF k = 0 THEN 1 ELSE 256 * Pow256(k - 1)

\* The memory of an n-byte unsigned integer num on machine m, as the bytes
\* at increasing addresses.  "Unknown" stands for an architecture on which
\* the probe sees neither byte of its pattern (an injected probe failure).
MemBytes(num, n, m) ==
    CASE m = "Little" -> [i \in 1..n |-> (num \div Pow256(i - 1)) % 256]
      [] m = "Big"    -> [i \in 1..n |-> (num \div Pow256(n - i)) % 256]
      [] OTHER        -> [i \in 1..n |-> 0]

PatternValue == 4660   \* 0x1234

LittleMark == 52       \* 0x34

BigMark == 18          \* 0x12

Ok(order) == [ok |-> TRUE, order |-> order]

Err == [ok |-> FALSE, order |-> "UnknownArchitecture"]

get_native_endianness_Inverted(m) ==
    LET endian_tester == MemBytes(PatternValue, 2, m) IN
    CASE endian_tester[1] = LittleMark -> Ok("Big")
      [] endian_tester[1] = BigMark    -> Ok("Little")
      [] OTHER                         -> Err

get_native_endianness(m) ==
    LET endian_tester == MemBytes(PatternValue, 2, m) IN
    CASE endian_tester[1] = LittleMark -> Ok("Little")
      [] endian_tester[1] = BigMark    -> Ok("Big")
      [] OTHER                         -> Err

---------------------------------------------------------------------------
\* The byte-reversal primitive.

endian_swap_unsafe_KeepsLast(v) ==
    [i \in 1..Len(v) |-> IF i = Len(v) THEN v[i] ELSE v[Len(v) - i]]

endian_swap_unsafe(v) ==
    [i \in 1..Len(v) |-> v[Len(v) + 1 - i]]

---------------------------------------------------------------------------
\* The wrapper.

Endian(tag, v) == [tag |-> tag, val |-> v]

new(v) == Endian("Native", v)

\* T::default(): the all-zero scalar of n bytes.
Default(n) == [i \in 1..n |-> 0]

\* What a cast returns, and whether it called the probe.
Ret(r, p) == [ret |-> r, probed |-> p]

as_big_LittleKept(self, m) ==
    CASE self.tag = "Little" -> Ret(Some(self.val), FALSE)
      [] self.tag = "Big"    -> Ret(Some(self.val), FALSE)
      [] self.tag = "Native" ->
            (LET r == get_native_endianness(m) IN
            IF ~r.ok THEN Ret(None, TRUE)
            ELSE CASE r.order = "Little" -> Ret(Some(endian_swap_unsafe(self.val)), TRUE)
                   [] r.order = "Big"    -> Ret(Some(self.val), TRUE)
                   [] r.order = "Native" -> Ret(None, TRUE))

as_big(self, m) ==
    CASE self.tag = "Little" -> Ret(Some(endian_swap_unsafe(self.val)), FALSE)
      [] self.tag = "Big"    -> Ret(Some(self.val), FALSE)
      [] self.tag = "Native" ->
            (LET r == get_native_endianness(m) IN
            IF ~r.ok THEN Ret(None, TRUE)
            ELSE CASE r.order = "Little" -> Ret(Some(endian_swap_unsafe(self.val)), TRUE)
                   [] r.order = "Big"    -> Ret(Some(self.val), TRUE)
                   [] r.order = "Native" -> Ret(None, TRUE))

as_little_NativeSwapped(self, m) ==
    CASE self.tag = "Little" -> Ret(Some(self.val), FALSE)
      [] self.tag = "Big"    -> Ret(Some(endian_swap_unsafe(self.val)), FALSE)
      [] self.tag = "Native" ->
            (LET r == get_native_endianness(m) IN
            IF ~r.ok THEN Ret(None, TRUE)
            ELSE CASE r.order = "Little" -> Ret(Some(endian_swap_unsafe(self.val)), TRUE)
                   [] r.order = "Big"    -> Ret(Some(self.val), TRUE)
                   [] r.order = "Native" -> Ret(None, TRUE))

as_little_LittleProbed(self, m) ==
    CASE self.tag = "Little" ->
            (LET rl == get_native_endianness(m) IN
             IF ~rl.ok THEN Ret(None, TRUE) ELSE Ret(Some(self.val), TRUE))
      [] self.tag = "Big"    -> Ret(Some(endian_swap_unsafe(self.val)), FALSE)
      [] self.tag = "Native" ->
            (LET r == get_native_endianness(m) IN
            IF ~r.ok THEN Ret(None, TRUE)
            ELSE CASE r.order = "Little" -> Ret(Some(self.val), TRUE)
                   [] r.order = "Big"    -> Ret(Some(endian_swap_unsafe(self.val)), TRUE)
                   [] r.order = "Native" -> Ret(None, TRUE))

as_little(self, m) ==
    CASE self.tag = "Little" -> Ret(Some(self.val), FALSE)
      [] self.tag = "Big"    -> Ret(Some(endian_swap_unsafe(self.val)), FALSE)
      [] self.tag = "Native" ->
            (LET r == get_native_endianness(m) IN
            IF ~r.ok THEN Ret(None, TRUE)
            ELSE CASE r.order = "Little" -> Ret(Some(self.val), TRUE)
                   [] r.order = "Big"    -> Ret(Some(endian_swap_unsafe(self.val)), TRUE)
                   [] r.order = "Native" -> Ret(None, TRUE))

as_native_ErrIgnored(self, m) ==
    CASE self.tag = "Little" ->
            (LET r == get_native_endianness(m) IN
            IF ~r.ok THEN Ret(Some(self.val), TRUE)
            ELSE CASE r.order = "Little" -> Ret(Some(self.val), TRUE)
                   [] r.order = "Big"    -> Ret(Some(endian_swap_unsafe(self.val)), TRUE)
                   [] r.order = "Native" -> Ret(None, TRUE))
      [] self.tag = "Big" ->
            (LET rb == get_native_endianness(m) IN
            IF ~rb.ok THEN Ret(Some(self.val), TRUE)
            ELSE CASE rb.order = "Little" -> Ret(Some(endian_swap_unsafe(self.val)), TRUE)
                   [] rb.order = "Big"    -> Ret(Some(self.val), TRUE)
                   [] rb.order = "Native" -> Ret(None, TRUE))
      [] self.tag = "Native" -> Ret(Some(self.val), FALSE)

as_native(self, m) ==
    CASE self.tag = "Little" ->
            (LET r == get_native_endianness(m) IN
            IF ~r.ok THEN Ret(None, TRUE)
            ELSE CASE r.order = "Little" -> Ret(Some(self.val), TRUE)
                   [] r.order = "Big"    -> Ret(Some(endian_swap_unsafe(self.val)), TRUE)
                   [] r.order = "Native" -> Ret(None, TRUE))
      [] self.tag = "Big" ->
            (LET rb == get_native_endianness(m) IN
            IF ~rb.ok THEN Ret(None, TRUE)
            ELSE CASE rb.order = "Little" -> Ret(Some(endian_swap_unsafe(self.val)), TRUE)
                   [] rb.order = "Big"    -> Ret(Some(self.val), TRUE)
                   [] rb.order = "Native" -> Ret(None, TRUE))
      [] self.tag = "Native" -> Ret(Some(self.val), FALSE)

cast_LittleBigCrossed(self, order, m) ==
    CASE order = "Little" -> as_big(self, m)
      [] order = "Big"    -> as_little(self, m)
      [] order = "Native" -> as_native(self, m)

cast(self, order, m) ==
    CASE order = "Little" -> as_little(self, m)
      [] order = "Big"    -> as_big(self, m)
      [] order = "Native" -> as_native(self, m)

is_little(self) == self.tag = "Little"

is_big(self) == self.tag = "Big"

is_native(self) == self.tag = "Native"

unpack_PayloadOnFailure(self, m) ==
    LET r == as_native(self, m) IN
    IF r.ret # None THEN Ret(r.ret[1], r.probed)
    ELSE Ret(self.val, r.probed)

\* Returns a plain T in ret, never an Option.
unpack(self, m) ==
    LET r == as_native(self, m) IN
    IF r.ret # None THEN Ret(r.ret[1], r.probed)
    ELSE Ret(Default(Len(self.val)), r.probed)

---------------------------------------------------------------------------
\* The stream-read helper.

\* stream.read_exact(buffer) on a source holding d with p bytes consumed,
\* for a buffer buf, when the source delivers avail more bytes before it
\* ends or errors.  It succeeds exactly when the buffer was filled.  On
\* failure the buffer holds what was delivered and the bytes are consumed.
read_exact(d, p, buf, avail) ==
    LET n == Len(buf) IN
    [ok  |-> avail = n,
     buf |-> [i \in 1..n |-> IF i <= avail THEN d[p + i] ELSE buf[i]],
     pos |-> p + avail]

from_stream_PartialKept(d, p, n, avail) ==
    LET r == read_exact(d, p, Default(n), avail) IN
    [ret |-> Some(new(r.buf)), pos |-> r.pos]

from_stream_ShortBuffer(d, p, n, avail) ==
    LET r == read_exact(d, p, Default(n - 1), Min(avail, n - 1)) IN
    IF ~r.ok THEN [ret |-> None, pos |-> r.pos]
    ELSE [ret |-> Some(new(r.buf)), pos |-> r.pos]

\* from_stream::<T> with size_of(T) = n.
from_stream(d, p, n, avail) ==
    LET r == read_exact(d, p, Default(n), avail) IN
    IF ~r.ok THEN [ret |-> None, pos |-> r.pos]
    ELSE [ret |-> Some(new(r.buf)), pos |-> r.pos]

---------------------------------------------------------------------------
\* The casts, called on a wrapper the caller constructed.

CastIdle ==
    /\ src = new(<<0>>)
    /\ w = new(<<0>>)
    /\ via = "none"
    /\ op = "none"
    /\ arg = "none"
    /\ res = None
    /\ probed = FALSE

SwapIdle ==
    /\ orig = <<>>
    /\ value = <<>>
    /\ swaps = 0

StreamIdle ==
    /\ data = <<>>
    /\ pos = 0
    /\ size = 1
    /\ reads = <<>>
    /\ failed = FALSE
    /\ last = None
    /\ lastPos = 0

\* The caller wraps a scalar: Endian::new(v), Endian::Little(v), Endian::Big(v).
Init ==
    /\ machine \in Machines
    /\ \E v \in Payloads, t \in Tags : src = Endian(t, v)
    /\ w = src
    /\ via = "none"
    /\ op = "none"
    /\ arg = "none"
    /\ res = None
    /\ probed = FALSE
    /\ SwapIdle
    /\ StreamIdle

AsBig ==
    LET r == as_big(w, machine) IN
    /\ op' = "as_big"
    /\ arg' = "none"
    /\ res' = r.ret
    /\ probed' = r.probed
    /\ UNCHANGED <<machine, src, w, via, swapVars, streamVars>>

AsLittle ==
    LET r == as_little(w, machine) IN
    /\ op' = "as_little"
    /\ arg' = "none"
    /\ res' = r.ret
    /\ probed' = r.probed
    /\ UNCHANGED <<machine, src, w, via, swapVars, streamVars>>

AsNative ==
    LET r == as_native(w, machine) IN
    /\ op' = "as_native"
    /\ arg' = "none"
    /\ res' = r.ret
    /\ probed' = r.probed
    /\ UNCHANGED <<machine, src, w, via, swapVars, streamVars>>

Cast ==
    \E order \in Tags :
        LET r == cast(w, order, machine) IN
        /\ op' = "cast"
        /\ arg' = order
        /\ res' = r.ret
        /\ probed' = r.probed
        /\ UNCHANGED <<machine, src, w, via, swapVars, streamVars>>

\* unpack() returns a plain T; res holds it as Some(t).
Unpack ==
    LET r == unpack(w, machine) IN
    /\ op' = "unpack"
    /\ arg' = "none"
    /\ res' = Some(r.ret)
    /\ probed' = r.probed
    /\ UNCHANGED <<machine, src, w, via, swapVars, streamVars>>

\* The caller wraps the scalar a cast returned with the order it asked for
\* (the middle step of a round trip); done once per behaviour.
Rewrap ==
    /\ via = "none"
    /\ op = "cast"
    /\ res # None
    /\ w' = Endian(arg, res[1])
    /\ via' = arg
    /\ op' = "wrap"
    /\ arg' = "none"
    /\ res' = None
    /\ probed' = FALSE
    /\ UNCHANGED <<machine, src, swapVars, streamVars>>

Next == AsBig \/ AsLittle \/ AsNative \/ Cast \/ Unpack \/ Rewrap

Spec == Init /\ [][Next]_vars

---------------------------------------------------------------------------
\* The byte-reversal primitive, applied repeatedly to one value.

InitSwap ==
    /\ machine = "Little"
    /\ orig \in Payloads
    /\ value = orig
    /\ swaps = 0
    /\ CastIdle
    /\ StreamIdle

EndianSwap ==
    /\ swaps < MaxSwaps
    /\ value' = endian_swap_unsafe(value)
    /\ swaps' = swaps + 1
    /\ UNCHANGED <<machine, orig, castVars, streamVars>>

NextSwap == EndianSwap

SpecSwap == InitSwap /\ [][NextSwap]_vars

---------------------------------------------------------------------------
\* Successive from_stream::<T> calls on one byte source.

InitStream ==
    /\ machine = "Little"
    /\ data \in Sources
    /\ size \in Sizes
    /\ pos = 0
    /\ reads = <<>>
    /\ failed = FALSE
    /\ last = None
    /\ lastPos = 0
    /\ CastIdle
    /\ SwapIdle

\* One call; the source delivers avail bytes to it (fewer than size when
\* the source ends or the read errors).
FromStream ==
    \E avail \in 0..Min(size, Len(data) - pos) :
        LET r == from_stream(data, pos, size, avail) IN
        /\ pos' = r.pos
        /\ last' = r.ret
        /\ lastPos' = pos
        /\ reads' = IF r.ret # None THEN Append(reads, r.ret[1].val) ELSE reads
        /\ failed' = (failed \/ r.ret = None)
        /\ UNCHANGED <<machine, data, size, castVars, swapVars>>

NextStream == FromStream

SpecStream == InitStream /\ [][NextStream]_vars

---------------------------------------------------------------------------
\* What the properties are stated with.

\* The byte sequence s in reverse order.
RECURSIVE Rev(_)
Rev(s) == IF s = <<>> THEN <<>> ELSE Append(Rev(Tail(s)), Head(s))

ProbeSucceeds == machine \in {"Little", "Big"}

\* The byte order a tag stands for on the running machine.
Resolve(t) == IF t = "Native" THEN machine ELSE t

\* The order the last directed conversion or cast() asked for.
Requested ==
    CASE op = "as_little" -> "Little"
      [] op = "as_big"    -> "Big"
      [] op = "as_native" -> "Native"
      [] OTHER            -> arg

Directed == {"as_little", "as_big", "as_native"}

Casting == Directed \cup {"cast"}

\* Whether converting a wrapper tagged t to order req has to know the
\* machine's order.
NeedsProbe(t, req) == (t = "Native") # (req = "Native")

\* The second cast of a round trip has returned: src was cast to via, the
\* result re-wrapped with tag via and cast back to src's tag.
RoundTripDone == via # "none" /\ op = "cast" /\ arg = src.tag

\* C1: with the probe succeeding, as_little(), as_big() and as_native()
\* return Some(payload) when the wrapper's resolved order equals the
\* resolved requested order and Some(byte-reversed payload) otherwise,
\* Native resolving to the machine's order.
C1_DirectedConversions ==
    (ProbeSucceeds /\ op \in Directed) =>
        res = Some(IF Resolve(w.tag) = Resolve(Requested)
                   THEN w.val ELSE Rev(w.val))

C1_Witness ==
    /\ machine = "Big"
    /\ op = "as_native"
    /\ w.tag = "Little"
    /\ Rev(w.val) # w.val
    /\ res = Some(Rev(w.val))

\* C2 as stated: the round trip wrap(v, o1).cast(o2), re-wrapped with o2,
\* .cast(o1) equals wrap(v, o1).as_native() whenever the probe succeeds.
C2_RoundTripIsNative ==
    (ProbeSucceeds /\ RoundTripDone) => res = as_native(src, machine).ret

\* C2 amended: the round trip returns the original payload v; that is
\* wrap(v, o1).as_native() exactly when o1 resolves to the machine's order
\* or v is its own byte reversal.
C2_RoundTripIsPayload ==
    (ProbeSucceeds /\ RoundTripDone) =>
        /\ res = Some(src.val)
        /\ (res = as_native(src, machine).ret) <=>
               (Resolve(src.tag) = machine \/ src.val = Rev(src.val))

C2_Witness ==
    /\ machine = "Big"
    /\ RoundTripDone
    /\ src.tag = "Little"
    /\ via = "Big"
    /\ Rev(src.val) # src.val
    /\ res = Some(src.val)
    /\ as_native(src, machine).ret = Some(Rev(src.val))

\* The results of as_little() and as_big() on w: the one the last
\* operation returned, and the other one.
LittleResult == IF op = "as_little" THEN res ELSE as_little(w, machine).ret

BigResult == IF op = "as_big" THEN res ELSE as_big(w, machine).ret

NativePair == ProbeSucceeds /\ w.tag = "Native" /\ op \in {"as_little", "as_big"}

\* C3 as stated: for a Native wrapper of 2..8 bytes the results of
\* as_little() and as_big() are byte reversals of each other and exactly
\* one of them equals the payload; for one byte they are equal.
C3_ExactlyOneUnchanged ==
    NativePair =>
        IF Len(w.val) >= 2
        THEN /\ Rev(LittleResult[1]) = BigResult[1]
             /\ Rev(BigResult[1]) = LittleResult[1]
             /\ (LittleResult[1] = w.val) # (BigResult[1] = w.val)
        ELSE LittleResult = BigResult

\* C3 amended: the two results are byte reversals of each other, the one
\* for the machine's own order equals the payload, and exactly one of them
\* equals the payload unless the payload is its own byte reversal (then
\* both do); for one byte they are equal.
C3_ReversalsOfEachOther ==
    NativePair =>
        /\ Rev(LittleResult[1]) = BigResult[1]
        /\ Rev(BigResult[1]) = LittleResult[1]
        /\ (IF machine = "Little" THEN LittleResult ELSE BigResult) = Some(w.val)
        /\ ((LittleResult[1] = w.val) # (BigResult[1] = w.val))
               <=> (w.val # Rev(w.val))
        /\ Len(w.val) = 1 => LittleResult = BigResult

C3_Witness ==
    /\ machine = "Little"
    /\ w.tag = "Native"
    /\ op = "as_big"
    /\ Len(w.val) = 4
    /\ w.val # Rev(w.val)
    /\ res = Some(Rev(w.val))
    /\ LittleResult = Some(w.val)

\* C4: Little(v).as_little() and Big(v).as_big() are Some(v) whatever the
\* probe would answer, and do not call the probe.
C4_MatchingTagIdentity ==
    ((op = "as_little" /\ w.tag = "Little") \/ (op = "as_big" /\ w.tag = "Big"))
        => (res = Some(w.val) /\ ~probed)

C4_Witness ==
    /\ machine = "Unknown"
    /\ op = "as_little"
    /\ w.tag = "Little"
    /\ res = Some(w.val)
    /\ ~probed

\* C5: as_little, as_big, as_native and cast return None exactly when the
\* conversion needs the probe (Native to Little or Big, Little or Big to
\* Native) and the probe fails; they call the probe exactly when they need
\* it.
C5_NoneIffProbeFails ==
    op \in Casting =>
        /\ (res = None) <=> (NeedsProbe(w.tag, Requested) /\ ~ProbeSucceeds)
        /\ probed <=> NeedsProbe(w.tag, Requested)

C5_Witness ==
    /\ machine = "Unknown"
    /\ op = "cast"
    /\ arg = "Native"
    /\ w.tag = "Big"
    /\ res = None

\* C6: cast(order) returns what as_little(), as_big() or as_native()
\* returns for that order, None or Some alike; bytes 00 00 00 02 read
\* natively on a little-endian machine and cast to Big give 2.
C6_CastDispatches ==
    op = "cast" =>
        /\ arg = "Little" => (res = as_little(w, machine).ret
                                /\ probed = as_little(w, machine).probed)
        /\ arg = "Big"    => (res = as_big(w, machine).ret
                                /\ probed = as_big(w, machine).probed)
        /\ arg = "Native" => (res = as_native(w, machine).ret
                                /\ probed = as_native(w, machine).probed)
        /\ (machine = "Little" /\ arg = "Big" /\ w = new(<<0, 0, 0, 2>>))
              => res = Some(MemBytes(2, 4, machine))

C6_Witness ==
    /\ machine = "Little"
    /\ op = "cast"
    /\ arg = "Big"
    /\ w = new(<<0, 0, 0, 2>>)
    /\ res = Some(<<2, 0, 0, 0>>)

\* A from_stream call has been made.
Called == failed \/ reads # <<>>

\* The bytes the source delivered to the last from_stream call.
Supplied == pos - lastPos

\* C7: a from_stream call that gets size_of(T) bytes returns
\* Some(Native(v)), v being those bytes in order; one that gets fewer
\* returns None; no result is tagged Little or Big.  On a little-endian
\* machine the bytes 02 00 00 00 give Native(2), whose as_big() is
\* 0x02000000 and whose as_little() is 2.
C7_AllOrNothing ==
    Called =>
        /\ Supplied = size =>
              last = Some(new(SubSeq(data, lastPos + 1, lastPos + size)))
        /\ Supplied < size => last = None
        /\ last # None => (is_native(last[1]) /\ Len(last[1].val) = size)
        /\ \A i \in 1..Len(reads) :
              (machine = "Little" /\ reads[i] = <<2, 0, 0, 0>>) =>
                 /\ new(reads[i]) = new(MemBytes(2, 4, machine))
                 /\ as_big(new(reads[i]), machine).ret
                       = Some(MemBytes(33554432, 4, machine))
                 /\ as_little(new(reads[i]), machine).ret
                       = Some(MemBytes(2, 4, machine))

C7_Witness ==
    /\ machine = "Little"
    /\ size = 4
    /\ reads = << <<2, 0, 0, 0>> >>
    /\ Len(data) - lastPos = 2
    /\ Supplied = 2
    /\ last = None

\* C8: endian_swap_unsafe returns a value of the same size whose byte i
\* is the input's byte n-1-i (counting from 0), and applying it twice
\* returns the original bytes, for sizes 1..8.
C8_SwapIsInvolution ==
    /\ Len(value) = Len(orig)
    /\ swaps % 2 = 1 =>
          \A i \in 1..Len(orig) : value[i] = orig[Len(orig) + 1 - i]
    /\ swaps % 2 = 0 => value = orig

C8_Witness ==
    /\ swaps = 2
    /\ Len(orig) = MaxSize
    /\ orig # Rev(orig)
    /\ value = orig

\* C9: unpack() returns the scalar as_native() holds when it is Some and
\* the all-zero scalar when it is None; with the probe failing on a Little
\* or Big wrapper that is the zero value; it always returns a T.
C9_UnpackDefaults ==
    op = "unpack" =>
        /\ Len(res) = 1
        /\ Len(res[1]) = Len(w.val)
        /\ as_native(w, machine).ret # None => res = as_native(w, machine).ret
        /\ as_native(w, machine).ret = None =>
              \A i \in 1..Len(w.val) : res[1][i] = 0
        /\ (~ProbeSucceeds /\ w.tag # "Native") =>
              \A i \in 1..Len(w.val) : res[1][i] = 0

C9_Witness ==
    /\ machine = "Unknown"
    /\ op = "unpack"
    /\ w.tag = "Little"
    /\ w.val = <<2, 0, 2, 2>>
    /\ res = Some(<<0, 0, 0, 0>>)

\* C10: a successful from_stream call advances the source by exactly
\* size_of(T) bytes and returns the bytes it advanced over; while every
\* call has succeeded, the i-th call returned the i-th size_of(T)-byte
\* block and the position is k * size_of(T) after k calls.
C10_AdvancesBySize ==
    /\ last # None =>
          /\ pos = lastPos + size
          /\ last[1].val = SubSeq(data, lastPos + 1, lastPos + size)
    /\ ~failed =>
          /\ pos = Len(reads) * size
          /\ \A i \in 1..Len(reads) :
                reads[i] = SubSeq(data, (i - 1) * size + 1, i * size)

C10_Witness ==
    /\ ~failed
    /\ size = 4
    /\ Len(reads) = 2
    /\ reads[1] # reads[2]
    /\ pos = 8

===========================================================================
